---- MODULE Spec2Model ----
(***************************************************************************)
(* Match settlement of impostor-stats: the match-ingestion endpoint        *)
(* src/app/api/match/route.ts (POST) and its second variant in             *)
(* src/unnamed/part_002 ("variant B").                                     *)
(*                                                                         *)
(* Numbers.  The code computes the Elo deltas in IEEE doubles.  Every      *)
(* value it can produce from integer points is a multiple of 1/DEN, so the *)
(* model keeps a double x as the integer x * DEN ("ticks").  The products  *)
(* base * (1 +- pct) of the seven base deltas with the six factors are     *)
(* exact in doubles (30 * 0.8 = 24, 10 * 1.4 = 14, ...), as are the sums,  *)
(* the means and the halves the re-centering produces, so ticks give the   *)
(* same values as the doubles do.                                          *)
(***************************************************************************)
EXTENDS Integers, Sequences, FiniteSets, TLC

VARIABLES
  pc,         \* "input" before the operation under check ran, "done" after it;
              \* in SpecIngest and SpecFail the deployed variant of the endpoint
  inp,        \* the input of the operation under check (a report, or its parts)
  out,        \* what the operation computed from inp (None before it ran)
  players,    \* table players: discord_id -> row
  results,    \* table match_results: the rows of the last inserted match
  matches,    \* table matches: sequence of rows
  violations, \* table player_violations: sequence of rows
  now         \* the server clock, in ms

vars == <<pc, inp, out, players, results, matches, violations, now>>
dbVars == <<players, results, matches, violations, now>>

None == [none |-> TRUE]

----------------------------------------------------------------------------
(* Program constants *)

ELO_FLOOR == 300
PLACEMENT_GAMES == 6
PLACEMENT_MULT == 3
CASUAL_REQUIRED_FOR_RANKED == 5

(* Bounds of the model *)

\* total points of a participant range over 0..MaxPts
MaxPts == 5

\* a report of the round-scoring specification holds at most MaxRounds rounds
MaxRounds == 3

\* Spec processes at most MaxMatches accepted reports
MaxMatches == 3

\* the violation specifications process at most MaxReports violation reports
MaxReports == 8

\* and let the clock advance at most MaxTicks times
MaxTicks == 1

\* SpecIngest inserts at most MaxIngest match rows
MaxIngest == 2

\* SpecRows inserts at most MaxRowReports match rows
MaxRowReports == 2

\* the pages are shown matches with total points 0..MaxShownPts
MaxShownPts == 5

----------------------------------------------------------------------------
(* Fixed point: a double x is kept as x * DEN *)

DEN == 4 * 120

Tk(n) == n * DEN

\* a * b for two doubles in ticks
Mul(a, b) == (a * b) \div DEN

Abs(x) == IF x < 0 THEN -x ELSE x

Max(a, b) == IF a >= b THEN a ELSE b

\* Math.round of a double in ticks: floor(x + 0.5), halves go up
MathRound(t) == (t + (DEN \div 2)) \div DEN

RECURSIVE SumSeq(_)
SumSeq(s) == IF s = <<>> THEN 0 ELSE Head(s) + SumSeq(Tail(s))

\* the values of f at the keys of sequence ks, in that order
Vals(ks, f) == [i \in 1..Len(ks) |-> f[ks[i]]]

----------------------------------------------------------------------------
(* The participants of a report: four discord ids, in the report's order *)

P == 1..4
Ids == <<1, 2, 3, 4>>

\* Array.prototype.sort with (a, b) => key[b] - key[a]: stable, descending.
\* InsertDesc puts x behind every element whose key is >= its own.
InsertDesc(s, x, key) ==
  LET k == Cardinality({i \in 1..Len(s) : key[s[i]] >= key[x]})
  IN SubSeq(s, 1, k) \o <<x>> \o SubSeq(s, k + 1, Len(s))

RECURSIVE SortDesc(_, _)
SortDesc(s, key) ==
  IF s = <<>> THEN <<>>
  ELSE LET n == Len(s)
       IN InsertDesc(SortDesc(SubSeq(s, 1, n - 1), key), s[n], key)

Range(s) == {s[i] : i \in 1..Len(s)}

\* sorted = Object.entries(points).map(...).sort((a, b) => b.points - a.points),
\* keys being the keys of points in the order they were set
SortedByPoints(keys, points) ==
  LET entries == [i \in 1..Len(keys) |-> [discord_id |-> keys[i], points |-> points[keys[i]]]]
  IN SortDesc(entries, [e \in Range(entries) |-> e.points])

----------------------------------------------------------------------------
(* Round scoring: the loop over insertedRounds of POST *)

Winners == {"imposter", "unschuldig"}

\* the rows match_rounds returns: imposter_discord_id, winner, aborted
Rounds == [imposter_discord_id : P, winner : Winners, aborted : BOOLEAN]

ScoreRoundCountingAborted(points, ir, ids) ==
  LET imp == ir.imposter_discord_id
  IN IF ir.winner = "imposter"
     THEN [points EXCEPT ![imp] = @ + 2]
     ELSE [id \in DOMAIN points |->
             IF id \in Range(ids) /\ id /= imp THEN points[id] + 1 ELSE points[id]]

\* the value of undefined + 2; it sorts as the comparator's NaN does in a
\* stable insertion (below every score), and is sent to storage as null
NaN == 0 - 1

\* x + n in doubles
Plus(x, n) == IF x = NaN THEN NaN ELSE x + n

\* how often id is listed in ids
Occurrences(ids, id) == Cardinality({i \in 1..Len(ids) : ids[i] = id})

\* one pass of the loop body.  points[imp] += 2 on an imp that is not a key
\* of points makes the key, with the value NaN; `for (const id of ids)
\* points[id] += 1` adds once for every listing of id
ScoreRound(points, ir, ids) ==
  LET imp == ir.imposter_discord_id
  IN IF ir.aborted THEN points
     ELSE IF ir.winner = "imposter"
          THEN [id \in DOMAIN points \cup {imp} |->
                  IF id /= imp THEN points[id]
                  ELSE IF imp \in DOMAIN points THEN Plus(points[imp], 2) ELSE NaN]
          ELSE [id \in DOMAIN points |->
                  IF id \in Range(ids) /\ id /= imp
                  THEN points[id] + Occurrences(ids, id) ELSE points[id]]

RECURSIVE ScoreLoop(_, _, _)
ScoreLoop(points, rounds, ids) ==
  IF rounds = <<>> THEN points
  ELSE ScoreLoop(ScoreRound(points, Head(rounds), ids), Tail(rounds), ids)

\* points[id] = 0 for the ids, then the loop
ComputePoints(ids, insertedRounds) ==
  ScoreLoop([id \in Range(ids) |-> 0], insertedRounds, ids)

\* s without the later listings of an element
RECURSIVE Dedupe(_)
Dedupe(s) ==
  IF s = <<>> THEN <<>>
  ELSE LET front == Dedupe(SubSeq(s, 1, Len(s) - 1))
       IN IF s[Len(s)] \in Range(front) THEN front ELSE Append(front, s[Len(s)])

\* the keys of points in the order Object.entries lists them: the ids as
\* they were first set to 0, then the imposters the loop added
PointKeys(ids, insertedRounds) ==
  LET won == SelectSeq(insertedRounds, LAMBDA ir : ~ir.aborted /\ ir.winner = "imposter")
  IN Dedupe(ids \o [i \in 1..Len(won) |-> won[i].imposter_discord_id])

----------------------------------------------------------------------------
(* Elo helpers *)

clampPctOversized(absDiff) ==
  IF absDiff >= Tk(300) THEN (12 * DEN) \div 10
  ELSE IF absDiff >= Tk(200) THEN (4 * DEN) \div 10
  ELSE IF absDiff >= Tk(100) THEN (2 * DEN) \div 10
  ELSE 0

clampPctExclusive(absDiff) ==
  IF absDiff > Tk(300) THEN (6 * DEN) \div 10
  ELSE IF absDiff > Tk(200) THEN (4 * DEN) \div 10
  ELSE IF absDiff > Tk(100) THEN (2 * DEN) \div 10
  ELSE 0

clampPct(absDiff) ==
  IF absDiff >= Tk(300) THEN (6 * DEN) \div 10
  ELSE IF absDiff >= Tk(200) THEN (4 * DEN) \div 10
  ELSE IF absDiff >= Tk(100) THEN (2 * DEN) \div 10
  ELSE 0

\* a damping that takes a fixed amount off the delta
applyLobbyFlatStep(baseDelta, playerElo, avgOthers) ==
  IF baseDelta = 0 THEN 0
  ELSE LET pct == clampPct(Abs(playerElo - avgOthers))
       IN IF baseDelta > 0 THEN baseDelta - 10 * pct ELSE baseDelta + 10 * pct

applyLobbyMultiplierFloat(baseDelta, playerElo, avgOthers) ==
  IF baseDelta = 0 THEN 0
  ELSE LET diff == playerElo - avgOthers
           pct == clampPct(Abs(diff))
       IN IF pct = 0 THEN baseDelta
          ELSE IF diff > 0
               THEN IF baseDelta > 0 THEN Mul(baseDelta, Tk(1) - pct)
                                     ELSE Mul(baseDelta, Tk(1) + pct)
               ELSE IF diff < 0
                    THEN IF baseDelta > 0 THEN Mul(baseDelta, Tk(1) + pct)
                                          ELSE Mul(baseDelta, Tk(1) - pct)
                    ELSE baseDelta

baseByPlace == <<30, 10, -10, -30>>

\* baseByPlace[k] ?? 0, k counted from 1
BaseAt(k) == IF k \in DOMAIN baseByPlace THEN baseByPlace[k] ELSE 0

\* the inner while: the last index of the run of equal points that starts at i
RECURSIVE RunEnd(_, _)
RunEnd(s, j) ==
  IF j + 1 <= Len(s) /\ s[j + 1].points = s[j].points THEN RunEnd(s, j + 1) ELSE j

RECURSIVE SumBase(_, _)
SumBase(i, j) == IF i > j THEN 0 ELSE BaseAt(i) + SumBase(i + 1, j)

\* the outer while of computeBaseDeltasByTiesFloat, from index i on
RECURSIVE BaseLoop(_, _, _)
BaseLoop(s, i, result) ==
  IF i > Len(s) THEN result
  ELSE LET j == RunEnd(s, i)
           avg == Tk(SumBase(i, j)) \div (j - i + 1)
           run == {s[k].discord_id : k \in i..j}
       IN BaseLoop(s, j + 1,
                   [id \in DOMAIN result \cup run |->
                      IF id \in run THEN avg ELSE result[id]])

BaseWithoutTies(sortedByPoints) ==
  [id \in {sortedByPoints[k].discord_id : k \in 1..Len(sortedByPoints)} |->
     Tk(BaseAt(CHOOSE k \in 1..Len(sortedByPoints) : sortedByPoints[k].discord_id = id))]

\* Map discord_id -> tie-averaged base delta (ticks)
computeBaseDeltasByTiesFloat(sortedByPoints) ==
  BaseLoop(sortedByPoints, 1, <<>>)

----------------------------------------------------------------------------
(* normalizeZeroSumAndRound.  keys is Object.keys(deltasFloat): the keys in
   insertion order. *)

\* frac.sort((a, b) => residual > 0 ? b.frac - a.frac : a.frac - b.frac)
SortFrac(frac, residual) ==
  SortDesc(frac, [e \in Range(frac) |-> IF residual > 0 THEN e.frac ELSE -e.frac])

\* the whole residual handed to the first participant of frac
RedistributeToFirst(rounded, frac, residual, i) ==
  [rounded EXCEPT ![frac[1].id] = @ + residual]

\* while (residual !== 0 && i < frac.length * 3) { ... }, i counted from 0
RECURSIVE Redistribute(_, _, _, _)
Redistribute(rounded, frac, residual, i) ==
  IF residual /= 0 /\ i < Len(frac) * 3
  THEN LET pick == frac[(i % Len(frac)) + 1].id
           step == IF residual > 0 THEN 1 ELSE -1
       IN Redistribute([rounded EXCEPT ![pick] = @ + step], frac, residual - step, i + 1)
  ELSE rounded

RoundNoRedistribute(keys, deltasFloat) ==
  LET n == Len(keys)
      mean == SumSeq(Vals(keys, deltasFloat)) \div n
  IN [id \in {keys[i] : i \in 1..n} |-> MathRound(deltasFloat[id] - mean)]

normalizeZeroSumAndRound(keys, deltasFloat) ==
  LET n == Len(keys)
      sum == SumSeq(Vals(keys, deltasFloat))
      mean == sum \div n
      zeroFloats == [id \in {keys[i] : i \in 1..n} |-> deltasFloat[id] - mean]
      rounded == [id \in DOMAIN zeroFloats |-> MathRound(zeroFloats[id])]
      frac == [i \in 1..n |-> [id |-> keys[i],
                               frac |-> zeroFloats[keys[i]] - Tk(rounded[keys[i]])]]
      roundedSum == SumSeq(Vals(keys, rounded))
      residual == -roundedSum
  IN IF residual /= 0
     THEN Redistribute(rounded, SortFrac(frac, residual), residual, 0)
     ELSE rounded

----------------------------------------------------------------------------
(* The ranked block of POST: from the total points, the pre-match ratings
   and the ranked games played to the final integer deltas. *)

\* others = ids.filter((x) => x !== id)
Others(ids, id) == SelectSeq(ids, LAMBDA x : x /= id)

\* (eloBefore[others[0]] + eloBefore[others[1]] + eloBefore[others[2]]) / 3
AvgOthers(ids, eloBefore, id) ==
  LET others == Others(ids, id)
  IN Tk(eloBefore[others[1]] + eloBefore[others[2]] + eloBefore[others[3]]) \div 3

\* a placement test that also counts the match after the sixth
IsPlacementInclusive(played) == played <= PLACEMENT_GAMES

IsPlacement(played) == played < PLACEMENT_GAMES

\* d = applyLobbyMultiplierFloat(d, eloBefore[id], avgOthers)
Dampened(ids, baseDeltaMap, eloBefore, id) ==
  applyLobbyMultiplierFloat(baseDeltaMap[id], Tk(eloBefore[id]),
                            AvgOthers(ids, eloBefore, id))

ScaledNoPlacement(d, placement) == d

\* if (isPlacement[id]) d = d * PLACEMENT_MULT
ScaledDelta(d, placement) == IF placement THEN d * PLACEMENT_MULT ELSE d

AlwaysNormalize(ids, sorted, scaled, anyPlacement) ==
  normalizeZeroSumAndRound([i \in 1..Len(sorted) |-> sorted[i].discord_id], scaled)

\* finalDeltas = anyPlacement ? round each : normalizeZeroSumAndRound(scaled);
\* the keys of scaled are in the order of sorted, which filled it
FinalDeltas(ids, sorted, scaled, anyPlacement) ==
  IF anyPlacement
  THEN [id \in Range(ids) |-> MathRound(scaled[id])]
  ELSE normalizeZeroSumAndRound([i \in 1..Len(sorted) |-> sorted[i].discord_id], scaled)

RankedElo(ids, points, eloBefore, played) ==
  LET sorted == SortedByPoints(ids, points)
      baseDeltaMap == computeBaseDeltasByTiesFloat(sorted)
      isPlacement == [id \in Range(ids) |-> IsPlacement(played[id])]
      anyPlacement == \E id \in Range(ids) : isPlacement[id]
      dampened == [id \in Range(ids) |-> Dampened(ids, baseDeltaMap, eloBefore, id)]
      scaled == [id \in Range(ids) |-> ScaledDelta(dampened[id], isPlacement[id])]
  IN [sorted |-> sorted,
      baseDeltaMap |-> baseDeltaMap,
      isPlacement |-> isPlacement,
      anyPlacement |-> anyPlacement,
      dampened |-> dampened,
      scaled |-> scaled,
      finalDeltas |-> FinalDeltas(ids, sorted, scaled, anyPlacement)]

----------------------------------------------------------------------------
(* Storage.  players holds one row per discord id (POST upserts the four
   participants before it reads them); timestamps are ms on the server
   clock, and banned_until = 0 stands for null.  matches keeps the number of
   rows and the row inserted last, results the match_results rows inserted
   last: POST only appends to these tables and never reads them back.
   violations counts the player_violations rows per guild and offender. *)

Guilds == {"g1", "g2"}
Modes == {"ranked", "zwanglos"}
ViolationTypes == {"afk", "unangemessen", "left_voice"}

NoReason == <<>>
ViolationReason(type) == <<"violation", type>>

NoViolation == [present |-> FALSE, type |-> "afk", discord_id |-> 1]
Violation(type, id) == [present |-> TRUE, type |-> type, discord_id |-> id]

NoMatch == [id |-> 0, guild_id |-> "g1", mode |-> "zwanglos", aborted_reason |-> NoReason]

MinutesMs(m) == m * 60000

\* addMinutes(date, minutes)
addMinutes(date, minutes) == date + MinutesMs(minutes)

banMinutesForViolationCount(count) ==
  IF count = 1 THEN 30
  ELSE IF count = 2 THEN 60
  ELSE IF count = 3 THEN 120
  ELSE IF count = 4 THEN 360
  ELSE IF count = 5 THEN 720
  ELSE 24 * 60

FinalBanOverwrite(currentBan, newBanUntil) == newBanUntil

\* finalBan: the pending suspension where it ends later than the new one
FinalBan(currentBan, newBanUntil) ==
  IF currentBan /= 0 /\ currentBan > newBanUntil THEN currentBan ELSE newBanUntil

NextEloUnclamped(curElo, delta) == curElo + delta

\* Math.max(ELO_FLOOR, curElo + delta)
NextElo(curElo, delta) == Max(ELO_FLOOR, curElo + delta)

\* process.env.BOT_INGEST_TOKEN
BotToken == "secret"

\* a column that holds null
Null == 0 - 1

\* x ?? dflt
Coalesce(x, dflt) == IF x = Null THEN dflt ELSE x

\* the display name the stored players carry
StoredName == "name"

\* no players row for this discord_id
NoPlayerRow ==
  [registered |-> FALSE, last_name |-> "", elo_ranked |-> Null, games_casual |-> Null,
   games_ranked |-> Null, ranked_games_played |-> Null, violations_count |-> Null,
   banned_until |-> 0]

\* players.upsert(upsertPlayers, onConflict discord_id): a row per participant,
\* last_name set from the report
UpsertPlayers(table, ids, display_name) ==
  [id \in DOMAIN table |->
     IF id \in Range(ids)
     THEN [table[id] EXCEPT !.registered = TRUE, !.last_name = display_name]
     ELSE table[id]]

\* byId as POST reads it: Number(byId[id]?.column ?? default)
ReadRows(table) ==
  [id \in DOMAIN table |->
     [table[id] EXCEPT !.elo_ranked = Coalesce(@, 1000),
                       !.games_casual = Coalesce(@, 0),
                       !.games_ranked = Coalesce(@, 0),
                       !.ranked_games_played = Coalesce(@, 0),
                       !.violations_count = Coalesce(@, 0)]]

\* an error response; the error string is kept as a tuple of its parts
Rejected(status, error) == [ok |-> FALSE, status |-> status, error |-> <<error>>]

\* the early returns of route.ts before any storage call
RejectionA(req) ==
  IF req.token /= BotToken THEN Rejected(401, "unauthorized")
  ELSE IF ~req.fields THEN Rejected(400, "missing fields")
  ELSE IF req.mode /= "ranked" /\ req.mode /= "zwanglos"
       THEN Rejected(400, "mode must be ranked|zwanglos")
  ELSE IF Len(req.ids) /= 4 THEN Rejected(400, "expected 4 players")
  ELSE IF Len(req.rounds) /= 5 THEN Rejected(400, "expected 5 rounds")
  ELSE None

UnqualifiedOffByOne(ids, byId) ==
  {i \in 1..Len(ids) : byId[ids[i]].games_casual < CASUAL_REQUIRED_FOR_RANKED - 1}

\* the ranked qualification gate: the ids below the casual requirement,
\* as positions of the report's player order
Unqualified(ids, byId) ==
  {i \in 1..Len(ids) : byId[ids[i]].games_casual < CASUAL_REQUIRED_FOR_RANKED}

Min(S) == CHOOSE x \in S : \A y \in S : x <= y

ResultsAbortAll(match_id, ids, points, violator, penalty) ==
  [i \in 1..Len(ids) |->
     [match_id |-> match_id, discord_id |-> ids[i], total_points |-> points[ids[i]],
      placement |-> 0, elo_delta |-> penalty]]

\* rows of an aborted match: resultsAbort
ResultsAbort(match_id, ids, points, violator, penalty) ==
  [i \in 1..Len(ids) |->
     [match_id |-> match_id, discord_id |-> ids[i], total_points |-> points[ids[i]],
      placement |-> 0, elo_delta |-> IF ids[i] = violator THEN penalty ELSE 0]]

\* rows of a settled match: resultsRows, placement idx + 1 with idx from 0
ResultsRows(match_id, sorted, deltas) ==
  [k \in 1..Len(sorted) |->
     [match_id |-> match_id, discord_id |-> sorted[k].discord_id,
      total_points |-> sorted[k].points, placement |-> k,
      elo_delta |-> IF sorted[k].discord_id \in DOMAIN deltas
                    THEN deltas[sorted[k].discord_id] ELSE 0]]

ZeroDeltas(ids) == [id \in Range(ids) |-> 0]

\* eloBefore: from the payload where it is a finite number, else from the row
EloBefore(req, byId, ids) ==
  [id \in Range(ids) |-> IF req.elo_given THEN req.elo_before[id] ELSE byId[id].elo_ranked]

(* POST of src/app/api/match/route.ts on the report
   req = [token, fields, ids, display_name, guild_id, mode, rounds, elo_given,
          elo_before, violation], every storage call succeeding.  fields says
   that guild_id, mode, players and rounds are present; ids are the
   discord_ids of players, in the report's order. *)
PostA(req) ==
  IF RejectionA(req) /= None
  THEN /\ out' = RejectionA(req)
       /\ UNCHANGED <<players, results, matches, violations>>
  ELSE
  LET ids == req.ids
      upserted == UpsertPlayers(players, ids, req.display_name)
      byId == ReadRows(upserted)
      mode == req.mode
      bad == Unqualified(ids, byId)
  IN
  IF mode = "ranked" /\ bad /= {}
  THEN /\ out' = [ok |-> FALSE, status |-> 400,
                  error |-> <<"player_not_qualified_for_ranked", ids[Min(bad)]>>]
       /\ players' = upserted
       /\ UNCHANGED <<results, matches, violations>>
  ELSE
    LET match_id == matches.n + 1
        reason == IF req.violation.present THEN ViolationReason(req.violation.type)
                  ELSE NoReason
        matchRow == [id |-> match_id, guild_id |-> req.guild_id, mode |-> mode,
                     aborted_reason |-> reason]
        points == ComputePoints(ids, req.rounds)
        sorted == SortedByPoints(PointKeys(ids, req.rounds), points)
    IN
    /\ matches' = [n |-> match_id, last |-> matchRow]
    /\ IF req.violation.present
       THEN
         LET violator == req.violation.discord_id
             oldCount == byId[violator].violations_count
             newCount == oldCount + 1
             minutes == banMinutesForViolationCount(newCount)
             newBanUntil == addMinutes(now, minutes)
             currentBan == byId[violator].banned_until
             finalBan == FinalBan(currentBan, newBanUntil)
             banned == [upserted EXCEPT ![violator].violations_count = newCount,
                                       ![violator].banned_until = finalBan]
         IN
         /\ violations' = [violations EXCEPT ![req.guild_id, violator] = @ + 1]
         /\ out' = [ok |-> TRUE, status |-> 200, match_id |-> match_id, aborted |-> TRUE,
                    byId |-> byId, newCount |-> newCount, minutes |-> minutes,
                    violation |-> req.violation]
         /\ IF mode = "ranked"
            THEN /\ results' = ResultsAbort(match_id, ids, points, violator, -30)
                 /\ players' = [banned EXCEPT ![violator].elo_ranked =
                                                NextElo(byId[violator].elo_ranked, -30)]
            ELSE /\ results' = ResultsAbort(match_id, ids, points, violator, 0)
                 /\ players' = banned
       ELSE
         /\ UNCHANGED violations
         /\ IF mode = "zwanglos"
            THEN /\ results' = ResultsRows(match_id, sorted, ZeroDeltas(ids))
                 /\ players' = [id \in DOMAIN players |->
                                  IF id \in Range(ids)
                                  THEN [upserted[id] EXCEPT !.games_casual =
                                                             byId[id].games_casual + 1]
                                  ELSE upserted[id]]
                 /\ out' = [ok |-> TRUE, status |-> 200, match_id |-> match_id,
                            aborted |-> FALSE, byId |-> byId]
            ELSE
              LET elo == RankedElo(ids, points, EloBefore(req, byId, ids),
                                   [id \in Range(ids) |-> byId[id].ranked_games_played])
              IN
              /\ results' = ResultsRows(match_id, sorted, elo.finalDeltas)
              /\ players' = [id \in DOMAIN players |->
                               IF id \in Range(ids)
                               THEN [upserted[id] EXCEPT
                                       !.elo_ranked = NextElo(byId[id].elo_ranked,
                                                              elo.finalDeltas[id]),
                                       !.games_ranked = byId[id].games_ranked + 1,
                                       !.ranked_games_played =
                                          byId[id].ranked_games_played + 1]
                               ELSE upserted[id]]
              /\ out' = [ok |-> TRUE, status |-> 200, match_id |-> match_id,
                         aborted |-> FALSE, anyPlacement |-> elo.anyPlacement,
                         byId |-> byId]

\* the storage calls of POST, in the order of the code; players.update
\* carries the position k of the participant in the settlement loop
StorageCalls ==
  {"players.upsert", "players.select", "matches.insert", "categories.select",
   "match_rounds.insert", "round_player_points.insert", "player_violations.insert",
   "players.update.ban", "matches.update", "match_results.insert",
   "players.update.elo"}

StorageOps ==
  {[name |-> n, k |-> 0] : n \in StorageCalls}
  \cup {[name |-> "players.update", k |-> k] : k \in 1..4}

NoOp == [name |-> "none", k |-> 0]

\* a catch block that answers as if the request had gone through
ThrownSwallowed(op) == [ok |-> TRUE, status |-> 200, error |-> <<"storage", op.name>>]

\* the catch block: j({ ok: false, error: String(err.message) }, 500)
Thrown(op) == [ok |-> FALSE, status |-> 500, error |-> <<"storage", op.name>>]

(* POST of src/app/api/match/route.ts when the storage call op returns an
   error and every call before it succeeded.  The calls that `throw` their
   error end in the catch block with what was written before them left in
   place; the error of matches.update (line 391) is not looked at, and POST
   goes on as PostA does.  Enabled when POST issues the call. *)
PostAFailing(req, op) ==
  /\ RejectionA(req) = None
  /\ LET ids == req.ids
         upserted == UpsertPlayers(players, ids, req.display_name)
         byId == ReadRows(upserted)
         mode == req.mode
         gate == mode = "ranked" /\ Unqualified(ids, byId) /= {}
         viol == req.violation.present
         match_id == matches.n + 1
         reason == IF viol THEN ViolationReason(req.violation.type) ELSE NoReason
         inserted == [n |-> match_id,
                      last |-> [id |-> match_id, guild_id |-> req.guild_id,
                                mode |-> mode, aborted_reason |-> reason]]
         points == ComputePoints(ids, req.rounds)
         sorted == SortedByPoints(PointKeys(ids, req.rounds), points)
         violator == req.violation.discord_id
         newBanUntil == addMinutes(now, banMinutesForViolationCount(
                                          byId[violator].violations_count + 1))
         banned == [upserted EXCEPT
                      ![violator].violations_count = byId[violator].violations_count + 1,
                      ![violator].banned_until =
                         FinalBan(byId[violator].banned_until, newBanUntil)]
         deltas == IF mode = "zwanglos" THEN ZeroDeltas(ids)
                   ELSE RankedElo(ids, points, EloBefore(req, byId, ids),
                                  [id \in Range(ids) |-> byId[id].ranked_games_played]
                                 ).finalDeltas
         next(id) == IF mode = "zwanglos"
                     THEN [upserted[id] EXCEPT !.games_casual = byId[id].games_casual + 1]
                     ELSE [upserted[id] EXCEPT
                             !.elo_ranked = NextElo(byId[id].elo_ranked, deltas[id]),
                             !.games_ranked = byId[id].games_ranked + 1,
                             !.ranked_games_played = byId[id].ranked_games_played + 1]
     IN
     CASE op.name = "players.upsert" ->
            /\ out' = Thrown(op)
            /\ UNCHANGED <<players, results, matches, violations>>
       [] op.name \in {"players.select"} \/ (op.name = "matches.insert" /\ ~gate) ->
            /\ out' = Thrown(op)
            /\ players' = upserted
            /\ UNCHANGED <<results, matches, violations>>
       [] /\ ~gate
          /\ \/ op.name \in {"categories.select", "match_rounds.insert",
                             "round_player_points.insert"}
             \/ op.name = "player_violations.insert" /\ viol
             \/ op.name = "match_results.insert" /\ ~viol ->
            /\ out' = Thrown(op)
            /\ players' = upserted
            /\ matches' = inserted
            /\ UNCHANGED <<results, violations>>
       [] ~gate /\ viol /\ op.name = "players.update.ban" ->
            /\ out' = Thrown(op)
            /\ players' = upserted
            /\ matches' = inserted
            /\ violations' = [violations EXCEPT ![req.guild_id, violator] = @ + 1]
            /\ UNCHANGED results
       [] ~gate /\ viol /\ op.name = "matches.update" ->
            PostA(req)
       [] ~gate /\ viol /\ op.name = "match_results.insert" ->
            /\ out' = Thrown(op)
            /\ players' = banned
            /\ matches' = inserted
            /\ violations' = [violations EXCEPT ![req.guild_id, violator] = @ + 1]
            /\ UNCHANGED results
       [] ~gate /\ viol /\ mode = "ranked" /\ op.name = "players.update.elo" ->
            /\ out' = Thrown(op)
            /\ players' = banned
            /\ matches' = inserted
            /\ violations' = [violations EXCEPT ![req.guild_id, violator] = @ + 1]
            /\ results' = ResultsAbort(match_id, ids, points, violator, -30)
       [] ~gate /\ ~viol /\ op.name = "players.update" ->
            /\ out' = Thrown(op)
            /\ players' = [id \in DOMAIN players |->
                             IF \E i \in 1..(op.k - 1) : ids[i] = id
                             THEN next(id) ELSE upserted[id]]
            /\ matches' = inserted
            /\ results' = ResultsRows(match_id, sorted, deltas)
            /\ UNCHANGED violations
       [] OTHER -> FALSE

----------------------------------------------------------------------------
(* Variant B of the endpoint (src/unnamed/part_002) *)

ModesIn == {"ranked", "zwanglos", "casual"}

normalizeMode(mode) ==
  IF mode = "casual" THEN "zwanglos"
  ELSE IF mode = "zwanglos" THEN "zwanglos"
  ELSE "ranked"

penaltyMsCapAtSix(countAfter) ==
  IF countAfter <= 1 THEN 30 * 60 * 1000
  ELSE IF countAfter = 2 THEN 60 * 60 * 1000
  ELSE IF countAfter = 3 THEN 2 * 60 * 60 * 1000
  ELSE IF countAfter = 4 THEN 4 * 60 * 60 * 1000
  ELSE IF countAfter = 5 THEN 8 * 60 * 60 * 1000
  ELSE 24 * 60 * 60 * 1000

penaltyMsForCount(countAfter) ==
  IF countAfter <= 1 THEN 30 * 60 * 1000
  ELSE IF countAfter = 2 THEN 60 * 60 * 1000
  ELSE IF countAfter = 3 THEN 2 * 60 * 60 * 1000
  ELSE IF countAfter = 4 THEN 4 * 60 * 60 * 1000
  ELSE IF countAfter = 5 THEN 8 * 60 * 60 * 1000
  ELSE IF countAfter = 6 THEN 16 * 60 * 60 * 1000
  ELSE 24 * 60 * 60 * 1000

NoViolationResult ==
  [present |-> FALSE, discord_id |-> 1, violations_count |-> 0, penalty_ms |-> 0,
   penalty_until |-> 0]

\* insertViolationAndReturnPenalty: the row count of guild and offender after
\* the insert, the penalty for it, and the players row it leaves
ViolationPenalty(guild_id, discord_id) ==
  LET violations_count == violations[guild_id, discord_id] + 1
      penalty_ms == penaltyMsForCount(violations_count)
      penalty_until == now + penalty_ms
  IN [present |-> TRUE, discord_id |-> discord_id,
      violations_count |-> violations_count, penalty_ms |-> penalty_ms,
      penalty_until |-> penalty_until]

\* points from the rounds, or from the players' total_points without rounds
PointsB(req, ids) ==
  IF Len(req.rounds) > 0 THEN ComputePoints(ids, req.rounds)
  ELSE [id \in Range(ids) |-> req.total_points[id]]

\* the early returns of variant B before any storage call
RejectionB(req) ==
  IF req.token /= BotToken THEN Rejected(401, "unauthorized")
  ELSE IF ~req.fields THEN Rejected(400, "missing fields")
  ELSE IF Len(req.ids) /= 4 THEN Rejected(400, "expected 4 players")
  ELSE None

(* POST of variant B on the report
   req = [token, fields, ids, display_name, guild_id, mode, rounds,
          total_points, elo_given, elo_before, violation, abort_reason], every
   storage call succeeding. *)
PostB(req) ==
  IF RejectionB(req) /= None
  THEN /\ out' = RejectionB(req)
       /\ UNCHANGED <<players, results, matches, violations>>
  ELSE
  LET ids == req.ids
      upserted == UpsertPlayers(players, ids, req.display_name)
      byId == ReadRows(upserted)
      modeDb == normalizeMode(req.mode)
      bad == Unqualified(ids, byId)
  IN
  IF modeDb = "ranked" /\ bad /= {}
  THEN /\ out' = [ok |-> FALSE, status |-> 400,
                  error |-> <<"player_not_qualified_for_ranked", ids[Min(bad)]>>]
       /\ players' = upserted
       /\ UNCHANGED <<results, matches, violations>>
  ELSE
    LET match_id == matches.n + 1
        aborted_reason == IF req.violation.present
                          THEN ViolationReason(req.violation.type)
                          ELSE req.abort_reason
        matchRow == [id |-> match_id, guild_id |-> req.guild_id, mode |-> modeDb,
                     aborted_reason |-> aborted_reason]
        vr == IF req.violation.present
              THEN ViolationPenalty(req.guild_id, req.violation.discord_id)
              ELSE NoViolationResult
        punished == IF req.violation.present
                    THEN [upserted EXCEPT
                            ![vr.discord_id].violations_count = vr.violations_count,
                            ![vr.discord_id].banned_until = vr.penalty_until]
                    ELSE upserted
        points == PointsB(req, ids)
        sorted == SortedByPoints(ids, points)
    IN
    /\ matches' = [n |-> match_id, last |-> matchRow]
    /\ violations' = IF req.violation.present
                     THEN [violations EXCEPT ![req.guild_id, vr.discord_id] = @ + 1]
                     ELSE violations
    /\ IF modeDb = "zwanglos"
       THEN /\ results' = ResultsRows(match_id, sorted, ZeroDeltas(ids))
            /\ players' = [id \in DOMAIN players |->
                             IF id \in Range(ids)
                             THEN [punished[id] EXCEPT !.games_casual =
                                                         byId[id].games_casual + 1]
                             ELSE punished[id]]
            /\ out' = [ok |-> TRUE, status |-> 200, match_id |-> match_id,
                       aborted |-> aborted_reason /= NoReason, violation |-> vr,
                       byId |-> byId]
       ELSE
         LET elo == RankedElo(ids, points, EloBefore(req, byId, ids),
                              [id \in Range(ids) |-> byId[id].ranked_games_played])
         IN
         /\ results' = ResultsRows(match_id, sorted, elo.finalDeltas)
         /\ players' = [id \in DOMAIN players |->
                          IF id \in Range(ids)
                          THEN [punished[id] EXCEPT
                                  !.elo_ranked = NextElo(byId[id].elo_ranked,
                                                         elo.finalDeltas[id]),
                                  !.games_ranked = byId[id].games_ranked + 1,
                                  !.ranked_games_played =
                                     byId[id].ranked_games_played + 1]
                          ELSE punished[id]]
         /\ out' = [ok |-> TRUE, status |-> 200, match_id |-> match_id,
                    aborted |-> aborted_reason /= NoReason,
                    anyPlacement |-> elo.anyPlacement, violation |-> vr,
                    byId |-> byId]

----------------------------------------------------------------------------
(* SpecElo: the ranked block on every input of the bounded sets *)

\* pre-match ratings of the four participants: the gaps to the mean of the
\* other three take the values 0, +-100, +-200, +-300 (the band edges) and,
\* with 1299, values just inside the next lower band (299, 199, 99.67)
Lobbies ==
  { <<1000, 1000, 1000, 1000>>,
    <<1300, 1000, 1000, 1000>>,
    <<1300, 1300, 1000, 1000>>,
    <<1300, 1300, 1300, 1000>>,
    <<1299, 1000, 1000, 1000>>,
    <<1299, 1300, 1000, 1000>> }

EloInputs ==
  [points : [P -> 0..MaxPts],
   eloBefore : Lobbies,
   played : [P -> {PLACEMENT_GAMES - 1, PLACEMENT_GAMES}]]

DbIdle ==
  /\ players = <<>>
  /\ results = <<>>
  /\ matches = <<>>
  /\ violations = <<>>
  /\ now = 0

EloInit ==
  /\ pc = "input"
  /\ inp \in EloInputs
  /\ out = None
  /\ DbIdle

ComputeElo ==
  /\ pc = "input"
  /\ pc' = "done"
  /\ out' = RankedElo(Ids, inp.points, inp.eloBefore, inp.played)
  /\ UNCHANGED <<inp, dbVars>>

EloNext == ComputeElo

SpecElo == EloInit /\ [][EloNext]_vars

----------------------------------------------------------------------------
(* What the claims say of one ranked settlement, stated from the inputs *)

\* the participants with more points than p, and those with the points of p
Higher(p) == Cardinality({q \in P : inp.points[q] > inp.points[p]})
Same(p) == Cardinality({q \in P : inp.points[q] = inp.points[p]})

\* PlacePrefix[k + 1] is the sum of the base deltas of the places 1..k
PlacePrefix == <<0, 30, 40, 30, 0>>

\* the sum of the base deltas of the places the tie group of p occupies
TieGroupSum(p) == PlacePrefix[Higher(p) + Same(p) + 1] - PlacePrefix[Higher(p) + 1]

\* three times the gap of p's rating to the mean rating of the other three
Gap3(p) == 4 * inp.eloBefore[p] - SumSeq(inp.eloBefore)

\* the damping fraction of p, in tenths
FractionTenths(p) ==
  LET g == Abs(Gap3(p))
  IN IF g < 3 * 100 THEN 0 ELSE IF g < 3 * 200 THEN 2 ELSE IF g < 3 * 300 THEN 4 ELSE 6

\* ten times the dampened value of base delta b for participant p
ExpectedDampened10(b, p) ==
  LET f == FractionTenths(p)
      g == Gap3(p)
  IN IF g = 0 \/ f = 0 \/ b = 0 THEN 10 * b
     ELSE IF g > 0
          THEN IF b > 0 THEN b * (10 - f) ELSE b * (10 + f)
          ELSE IF b > 0 THEN b * (10 + f) ELSE b * (10 - f)

\* integer z is x (in ticks) rounded to the nearest integer, halves up
IsNearest(z, x) == 2 * (x - Tk(z)) < DEN /\ 2 * (x - Tk(z)) >= -DEN

NoPlacement == \A p \in P : ~IsPlacement(inp.played[p])

SumFinal == SumSeq(Vals(Ids, out.finalDeltas))

\* C1: in a ranked match where no participant is in placement phase, the
\* four final integer deltas sum to exactly 0, whatever the total points
\* (ties included) and the pre-match ratings.
C1_ZeroSum ==
  (pc = "done" /\ NoPlacement) => SumFinal = 0

\* a tie, and a re-centered rounding that left a residual to redistribute
C1_Witness ==
  /\ pc = "done"
  /\ NoPlacement
  /\ \E p, q \in P : p /= q /\ inp.points[p] = inp.points[q]
  /\ SumSeq(Vals(Ids, RoundNoRedistribute(Ids, out.scaled))) /= 0
  /\ SumFinal = 0

\* C3: every participant in a run of equal points gets the mean of the base
\* deltas [30, 10, -10, -30] of the places the run occupies, an untied one the
\* base delta of the own place; the base deltas sum to 0; points [5,3,3,2]
\* give [30, 0, 0, -30].
C3_TieMeanBase ==
  pc = "done" =>
    /\ \A p \in P : out.baseDeltaMap[p] * Same(p) = Tk(TieGroupSum(p))
    /\ SumSeq(Vals(Ids, out.baseDeltaMap)) = 0
    /\ (inp.points = <<5, 3, 3, 2>> =>
          out.baseDeltaMap = <<Tk(30), 0, 0, Tk(-30)>>)

C3_Witness ==
  /\ pc = "done"
  /\ inp.points = <<5, 3, 3, 2>>
  /\ out.baseDeltaMap[1] = Tk(30)
  /\ out.baseDeltaMap[2] = 0
  /\ out.baseDeltaMap[3] = 0

\* C4: the lobby multiplier maps |diff| to the fraction 0 (< 100), 0.2
\* (100..199), 0.4 (200..299), 0.6 (>= 300); above the lobby a gain is
\* multiplied by 1 - fraction and a loss by 1 + fraction, below the lobby the
\* inverse; diff 0, fraction 0 or base delta 0 leave the delta unchanged.
C4_LobbyMultiplier ==
  pc = "done" =>
    \A p \in P : 10 * out.dampened[p] = ExpectedDampened10(out.baseDeltaMap[p], p)

\* a loss amplified by 0.6 above the lobby and a gain amplified by 0.2 below
C4_Witness ==
  /\ pc = "done"
  /\ \E p \in P : /\ Gap3(p) >= 3 * 300
                  /\ out.baseDeltaMap[p] < 0
                  /\ 10 * out.dampened[p] = 16 * out.baseDeltaMap[p]
  /\ \E q \in P : /\ Gap3(q) = -(3 * 100)
                  /\ out.baseDeltaMap[q] > 0
                  /\ 10 * out.dampened[q] = 12 * out.baseDeltaMap[q]

\* C5: the final delta of a participant in placement phase is exactly 3
\* times the tie-averaged, lobby-dampened base delta of the same place and
\* rating gap, for tied and untied places alike.
C5_PlacementTriples ==
  pc = "done" =>
    \A p \in P :
      IsPlacement(inp.played[p]) =>
        Same(p) * 10 * Tk(out.finalDeltas[p])
          = 3 * ExpectedDampened10(Tk(TieGroupSum(p)), p)

\* a tied and an untied placement participant, both in a mismatched lobby
C5_Witness ==
  /\ pc = "done"
  /\ \E p, q \in P :
       /\ IsPlacement(inp.played[p]) /\ IsPlacement(inp.played[q])
       /\ Same(p) = 2 /\ Same(q) = 1
       /\ FractionTenths(p) /= 0 /\ FractionTenths(q) /= 0
       /\ out.finalDeltas[p] /= 0 /\ out.finalDeltas[q] /= 0

\* C6: with at least one participant in placement phase the match is not
\* normalized: every final delta is the dampened (for placement participants
\* tripled) delta rounded on its own; ratings all 1000, points [5,3,3,2] and
\* the first participant in placement give [90, 0, 0, -30].
C6_PlacementSkipsNormalization ==
  (pc = "done" /\ ~NoPlacement) =>
    /\ \A p \in P :
         IsNearest(out.finalDeltas[p],
                   (IF IsPlacement(inp.played[p]) THEN 3 ELSE 1)
                     * (ExpectedDampened10(out.baseDeltaMap[p], p) \div 10))
    /\ (/\ inp.points = <<5, 3, 3, 2>>
        /\ inp.eloBefore = <<1000, 1000, 1000, 1000>>
        /\ inp.played = <<PLACEMENT_GAMES - 1, PLACEMENT_GAMES, PLACEMENT_GAMES,
                          PLACEMENT_GAMES>>
        => out.finalDeltas = <<90, 0, 0, -30>>)

C6_Witness ==
  /\ pc = "done"
  /\ inp.points = <<5, 3, 3, 2>>
  /\ inp.eloBefore = <<1000, 1000, 1000, 1000>>
  /\ inp.played = <<5, 6, 6, 6>>
  /\ out.finalDeltas = <<90, 0, 0, -30>>
  /\ SumFinal = 60

----------------------------------------------------------------------------
(* SpecScore: the round scoring on every round list of up to MaxRounds
   rounds.  The report grows round by round as the rounds are played; the
   scoring then runs over the whole list. *)

ScoreInit ==
  /\ pc = "input"
  /\ inp = [rounds |-> <<>>]
  /\ out = None
  /\ DbIdle

PlayRound ==
  /\ pc = "input"
  /\ Len(inp.rounds) < MaxRounds
  /\ \E r \in Rounds : inp' = [inp EXCEPT !.rounds = Append(@, r)]
  /\ UNCHANGED <<pc, out, dbVars>>

ScoreReport ==
  /\ pc = "input"
  /\ pc' = "done"
  /\ out' = [points |-> ComputePoints(Ids, inp.rounds)]
  /\ UNCHANGED <<inp, dbVars>>

ScoreNext == PlayRound \/ ScoreReport

SpecScore == ScoreInit /\ [][ScoreNext]_vars

\* the rounds of the report that count, by kind
ImposterWins(p) ==
  {i \in 1..Len(inp.rounds) :
     /\ ~inp.rounds[i].aborted
     /\ inp.rounds[i].winner = "imposter"
     /\ inp.rounds[i].imposter_discord_id = p}

CrewWins(p) ==
  {i \in 1..Len(inp.rounds) :
     /\ ~inp.rounds[i].aborted
     /\ inp.rounds[i].winner /= "imposter"
     /\ inp.rounds[i].imposter_discord_id /= p}

\* C7: a non-aborted round won by the imposter gives the imposter-role holder
\* 2 points and the others 0; any other non-aborted round gives each of the
\* other three 1 point and the imposter-role holder 0; an aborted round gives
\* nobody anything, whatever its winner; the total is the sum over the rounds.
C7_RoundScoring ==
  pc = "done" =>
    \A p \in P :
      out.points[p] = 2 * Cardinality(ImposterWins(p)) + Cardinality(CrewWins(p))

\* an imposter win, a crew win and an aborted round with a recorded imposter win
C7_Witness ==
  /\ pc = "done"
  /\ Len(inp.rounds) = 3
  /\ \E i, k, a \in 1..Len(inp.rounds) :
       /\ inp.rounds[i] = [imposter_discord_id |-> 1, winner |-> "imposter", aborted |-> FALSE]
       /\ inp.rounds[k] = [imposter_discord_id |-> 2, winner |-> "unschuldig", aborted |-> FALSE]
       /\ inp.rounds[a] = [imposter_discord_id |-> 3, winner |-> "imposter", aborted |-> TRUE]
  /\ out.points = <<3, 0, 1, 1>>

----------------------------------------------------------------------------
(* Spec: reports processed one at a time by POST of route.ts *)

Rd(imp, winner, aborted) ==
  [imposter_discord_id |-> imp, winner |-> winner, aborted |-> aborted]

\* reports of five rounds; their totals are [5,3,3,2], [2,3,3,5], [1,0,3,7]
\* and, all rounds aborted, [0,0,0,0]
RoundLists ==
  { << Rd(1, "imposter", FALSE), Rd(1, "imposter", FALSE), Rd(1, "unschuldig", FALSE),
       Rd(1, "unschuldig", FALSE), Rd(4, "unschuldig", FALSE) >>,
    << Rd(1, "imposter", FALSE), Rd(1, "unschuldig", FALSE), Rd(1, "unschuldig", FALSE),
       Rd(1, "unschuldig", FALSE), Rd(4, "imposter", FALSE) >>,
    << Rd(4, "imposter", FALSE), Rd(4, "imposter", FALSE), Rd(4, "imposter", FALSE),
       Rd(3, "imposter", FALSE), Rd(2, "unschuldig", FALSE) >>,
    << Rd(1, "imposter", TRUE), Rd(2, "unschuldig", TRUE), Rd(3, "imposter", TRUE),
       Rd(4, "unschuldig", TRUE), Rd(1, "imposter", TRUE) >> }

\* the payload's elo_before: absent, or a lobby with the first participant
\* 300 above the others
PayloadElo ==
  { [given |-> FALSE, elo |-> <<1000, 1000, 1000, 1000>>],
    [given |-> TRUE, elo |-> <<1300, 1000, 1000, 1000>>] }

PlayerRow(elo, casual, played) ==
  [registered |-> TRUE, last_name |-> StoredName,
   elo_ranked |-> elo, games_casual |-> casual, games_ranked |-> played,
   ranked_games_played |-> played, violations_count |-> 0, banned_until |-> 0]

\* stored ratings at and just above the floor, and well above it; participants
\* past and inside the placement phase; one participant short of the casual
\* requirement
InitPlayers ==
  { [id \in P |-> PlayerRow(elo[id], casual[id], played[id])] :
      elo \in {<<300, 310, 1000, 1300>>, <<1000, 1000, 1000, 1000>>},
      casual \in {<<5, 5, 5, 5>>, <<5, 4, 5, 5>>},
      played \in {<<6, 6, 6, 6>>, <<5, 6, 6, 6>>} }

DbInit ==
  /\ players \in InitPlayers
  /\ results = <<>>
  /\ matches = [n |-> 0, last |-> NoMatch]
  /\ violations = [g \in Guilds, id \in P |-> 0]
  /\ now = 0

Init ==
  /\ pc = "idle"
  /\ inp = None
  /\ out = None
  /\ DbInit

\* a report without a violation
SettleA ==
  /\ matches.n < MaxMatches
  /\ \E mode \in Modes, rounds \in RoundLists, e \in PayloadElo :
       PostA([token |-> BotToken, fields |-> TRUE, ids |-> Ids,
              display_name |-> StoredName, guild_id |-> "g1", mode |-> mode, rounds |-> rounds,
              elo_given |-> e.given, elo_before |-> e.elo, violation |-> NoViolation])
  /\ UNCHANGED <<pc, inp, now>>

\* a report that carries a violation
AbortA ==
  /\ matches.n < MaxMatches
  /\ \E mode \in Modes, v \in {Violation("afk", 1), Violation("left_voice", 2)} :
       PostA([token |-> BotToken, fields |-> TRUE, ids |-> Ids,
              display_name |-> StoredName, guild_id |-> "g1", mode |-> mode,
              rounds |-> CHOOSE r \in RoundLists : ComputePoints(Ids, r) = <<5, 3, 3, 2>>,
              elo_given |-> FALSE, elo_before |-> <<1000, 1000, 1000, 1000>>,
              violation |-> v])
  /\ UNCHANGED <<pc, inp, now>>

Next == SettleA \/ AbortA

Spec == Init /\ [][Next]_vars

\* the last report was accepted
Accepted == out /= None /\ out.ok

\* the match_results row of participant p of the last accepted report
RowOf(p) == results[CHOOSE k \in 1..Len(results) : results[k].discord_id = p]

\* C2: from stored ratings >= 300, after any sequence of settled matches
\* (ranked settlements and ranked violation aborts) every stored elo_ranked is
\* >= 300; a participant at 300 with a negative delta stays at 300.
C2_EloFloor ==
  /\ \A p \in P : players[p].elo_ranked >= ELO_FLOOR
  /\ Accepted =>
       \A p \in P : (out.byId[p].elo_ranked = ELO_FLOOR /\ RowOf(p).elo_delta < 0)
                      => players[p].elo_ranked = ELO_FLOOR

\* a participant at 300 lost a ranked match, another was clamped by an abort
C2_Witness ==
  /\ Accepted
  /\ matches.n >= 2
  /\ \E p \in P : /\ out.byId[p].elo_ranked = ELO_FLOOR
                  /\ RowOf(p).elo_delta < 0
                  /\ ~out.aborted
                  /\ players[p].elo_ranked = ELO_FLOOR
  /\ \E q \in P : players[q].violations_count > 0 /\ players[q].elo_ranked = ELO_FLOOR

\* the tie-aware rank of participant p, doubled: the mean of the ranks
\* Higher + 1 .. Higher + Same of the tie group
TieRank2(p) ==
  LET higher == Cardinality({q \in P : RowOf(q).total_points > RowOf(p).total_points})
      same == Cardinality({q \in P : RowOf(q).total_points = RowOf(p).total_points})
  IN 2 * higher + same + 1

\* C8: for every settled (non-aborted) match the persisted placement of each
\* participant is the tie-aware rank (1..4 in steps of 0.5): equal points
\* persist the same placement, the mean of the ranks of the tie group; points
\* [5,3,3,2] persist [1, 2.5, 2.5, 4].
C8_TieAwarePlacementPersisted ==
  (Accepted /\ ~out.aborted) =>
    \A p \in P : 2 * RowOf(p).placement = TieRank2(p)

----------------------------------------------------------------------------
(* Violation escalation: sequences of reports that carry a violation, with
   the clock advancing between them.  SpecBanA runs POST of route.ts,
   SpecBanB POST of variant B. *)

\* the reports: guild, mode and offender
ViolationReports ==
  { [guild_id |-> "g1", mode |-> "zwanglos", discord_id |-> 1],
    [guild_id |-> "g1", mode |-> "ranked", discord_id |-> 1],
    [guild_id |-> "g2", mode |-> "zwanglos", discord_id |-> 1],
    [guild_id |-> "g1", mode |-> "zwanglos", discord_id |-> 2] }

ReportRounds == CHOOSE r \in RoundLists : ComputePoints(Ids, r) = <<5, 3, 3, 2>>

TickMs == MinutesMs(45)

BanInit ==
  /\ pc = "idle"
  /\ inp = None
  /\ out = None
  /\ players = [id \in P |-> PlayerRow(1000, CASUAL_REQUIRED_FOR_RANKED, PLACEMENT_GAMES)]
  /\ results = <<>>
  /\ matches = [n |-> 0, last |-> NoMatch]
  /\ violations = [g \in Guilds, id \in P |-> 0]
  /\ now = 0

\* Date.now() moves on
Tick ==
  /\ now < MaxTicks * TickMs
  /\ now' = now + TickMs
  /\ UNCHANGED <<pc, inp, out, players, results, matches, violations>>

ReportViolationA ==
  /\ matches.n < MaxReports
  /\ \E v \in ViolationReports :
       PostA([token |-> BotToken, fields |-> TRUE, ids |-> Ids,
              display_name |-> StoredName, guild_id |-> v.guild_id, mode |-> v.mode, rounds |-> ReportRounds,
              elo_given |-> FALSE, elo_before |-> <<1000, 1000, 1000, 1000>>,
              violation |-> Violation("afk", v.discord_id)])
  /\ UNCHANGED <<pc, inp, now>>

BanNextA == ReportViolationA \/ Tick

\* a suspension of three days, set before the reports of this run
PendingBan == MinutesMs(3 * 24 * 60)

\* as BanInit, or with participant 2 under the pending suspension
BanInitA ==
  /\ pc = "idle"
  /\ inp = None
  /\ out = None
  /\ \E pending \in {0, PendingBan} :
       players = [id \in P |->
                    [PlayerRow(1000, CASUAL_REQUIRED_FOR_RANKED, PLACEMENT_GAMES)
                       EXCEPT !.banned_until = IF id = 2 THEN pending ELSE 0]]
  /\ results = <<>>
  /\ matches = [n |-> 0, last |-> NoMatch]
  /\ violations = [g \in Guilds, id \in P |-> 0]
  /\ now = 0

SpecBanA == BanInitA /\ [][BanNextA]_vars

ReportViolationB ==
  /\ matches.n < MaxReports
  /\ \E v \in ViolationReports :
       PostB([token |-> BotToken, fields |-> TRUE, ids |-> Ids,
              display_name |-> StoredName, guild_id |-> v.guild_id, mode |-> v.mode, rounds |-> ReportRounds,
              total_points |-> <<0, 0, 0, 0>>,
              elo_given |-> FALSE, elo_before |-> <<1000, 1000, 1000, 1000>>,
              violation |-> Violation("afk", v.discord_id),
              abort_reason |-> NoReason])
  /\ UNCHANGED <<pc, inp, now>>

BanNextB == ReportViolationB \/ Tick

SpecBanB == BanInit /\ [][BanNextB]_vars

\* the suspension minutes for the violation counts 1..8, 24 h from 7 on
EscalationMinutes == <<30, 60, 120, 240, 480, 960, 1440, 1440>>

ExpectedMinutes(count) ==
  IF count >= 7 THEN 24 * 60 ELSE EscalationMinutes[count]

\* C9: in route.ts the violation counts 1..8 give suspensions of
\* [30, 60, 120, 240, 480, 960, 1440, 1440] minutes, non-decreasing in the count.
C9_BanMinutesEscalation ==
  (Accepted /\ out.aborted /\ out.newCount \in 1..8) =>
    /\ out.minutes = ExpectedMinutes(out.newCount)
    /\ \A c \in 1..out.newCount :
         banMinutesForViolationCount(c) <= banMinutesForViolationCount(c + 1)

\* C10: in variant B the violation counts 1..8 give suspensions of
\* [30, 60, 120, 240, 480, 960, 1440, 1440] minutes, every count of 7 or more
\* gives 24 hours, and the suspension is non-decreasing in the count.
C10_PenaltyEscalation ==
  (Accepted /\ out.violation.present) =>
    LET count == out.violation.violations_count
    IN /\ count >= 1
       /\ out.violation.penalty_ms = MinutesMs(ExpectedMinutes(count))
       /\ count >= 7 => out.violation.penalty_ms = 24 * 60 * 60 * 1000
       /\ \A c \in 1..count : penaltyMsForCount(c) <= penaltyMsForCount(c + 1)

\* the eighth violation of a participant in one guild: 24 hours
C10_Witness ==
  /\ Accepted
  /\ out.violation.present
  /\ out.violation.violations_count = 8
  /\ violations["g1", 1] = 8
  /\ out.violation.penalty_ms = MinutesMs(1440)
  /\ players[1].banned_until = now + MinutesMs(1440)

----------------------------------------------------------------------------
(* Suspensions and violation counts over sequences of violation reports *)

\* the participant the last report named as offender
Offender == out.violation.discord_id

\* C11: in route.ts, over any sequence of violation reports processed one at
\* a time, no participant's stored banned_until moves earlier; an offender
\* whose pending suspension ends later than now + duration keeps it.
C11_BanNeverEarlierA ==
  [][ /\ \A p \in P : players'[p].banned_until >= players[p].banned_until
      /\ \A p \in P :
           (/\ players'[p].violations_count = players[p].violations_count + 1
            /\ players[p].banned_until > now + MinutesMs(out'.minutes))
             => players'[p].banned_until = players[p].banned_until ]_vars

\* a report for the participant under the three-day suspension: the count
\* rose, the new suspension would end earlier, the stored one stayed
C11_Witness ==
  /\ Accepted
  /\ out.aborted
  /\ Offender = 2
  /\ out.byId[2].banned_until = PendingBan
  /\ out.byId[2].banned_until > now + MinutesMs(out.minutes)
  /\ players[2].violations_count = out.byId[2].violations_count + 1
  /\ players[2].banned_until = PendingBan

\* C12: in variant B, over any sequence of violation reports, reports from
\* different guilds included, no participant's stored banned_until moves to
\* an earlier time than the value already stored.
C12_BanNeverEarlierB ==
  [][\A p \in P : ~(players'[p].banned_until < players[p].banned_until)]_vars

\* C13: in route.ts the count that chooses the suspension and is written to
\* violations_count equals the number of player_violations rows of the
\* offender in the reporting guild, the row just appended included.
C13_CountIsGuildRecords ==
  (Accepted /\ out.aborted) =>
    /\ out.newCount = violations[matches.last.guild_id, Offender]
    /\ players[Offender].violations_count = violations[matches.last.guild_id, Offender]

\* C14: in route.ts a report with a violation skips the Elo settlement: in a
\* ranked match the offender's elo_delta is -30 and the stored rating
\* max(300, rating - 30), every other participant has elo_delta 0 and the
\* rating unchanged, and aborted_reason is violation:<type>; in a casual match
\* every elo_delta is 0 and no rating changes.
C14_ViolationAbortA ==
  (Accepted /\ out.aborted) =>
    /\ matches.last.aborted_reason = <<"violation", out.violation.type>>
    /\ matches.last.mode = "ranked" =>
         /\ RowOf(Offender).elo_delta = -30
         /\ players[Offender].elo_ranked =
              Max(ELO_FLOOR, out.byId[Offender].elo_ranked - 30)
         /\ \A p \in P \ {Offender} :
              /\ RowOf(p).elo_delta = 0
              /\ players[p].elo_ranked = out.byId[p].elo_ranked
    /\ matches.last.mode = "zwanglos" =>
         \A p \in P : /\ RowOf(p).elo_delta = 0
                      /\ players[p].elo_ranked = out.byId[p].elo_ranked

\* a ranked abort of an offender 10 above the floor, who lands on the floor,
\* in a lobby whose points would have settled to non-zero deltas
C14_Witness ==
  /\ Accepted
  /\ out.aborted
  /\ matches.last.mode = "ranked"
  /\ matches.last.aborted_reason = <<"violation", "left_voice">>
  /\ out.byId[Offender].elo_ranked = ELO_FLOOR + 10
  /\ players[Offender].elo_ranked = ELO_FLOOR
  /\ RowOf(Offender).elo_delta = -30
  /\ \E p, q \in P : RowOf(p).total_points > RowOf(q).total_points

\* C15: in variant B a report with a violation aborts the settlement: in a
\* ranked match only the offender's rating changes, by -30 floor-clamped, and
\* the other three participants have elo_delta 0 and unchanged ratings.
C15_ViolationAbortB ==
  (Accepted /\ out.violation.present /\ matches.last.mode = "ranked") =>
    LET offender == out.violation.discord_id
    IN /\ RowOf(offender).elo_delta = -30
       /\ players[offender].elo_ranked = Max(ELO_FLOOR, out.byId[offender].elo_ranked - 30)
       /\ \A p \in P \ {offender} :
            /\ RowOf(p).elo_delta = 0
            /\ players[p].elo_ranked = out.byId[p].elo_ranked

----------------------------------------------------------------------------
(* SpecIngest: arbitrary reports, well-formed or not, sent to the deployed
   variant of the endpoint.  pc holds the variant, inp the last report. *)

\* a well-formed casual report of the players 1..4
GoodReport ==
  [token |-> BotToken, fields |-> TRUE, ids |-> Ids, display_name |-> StoredName,
   guild_id |-> "g1", mode |-> "zwanglos", rounds |-> ReportRounds,
   total_points |-> <<5, 3, 3, 2>>, elo_given |-> FALSE,
   elo_before |-> <<1000, 1000, 1000, 1000>>, violation |-> NoViolation,
   abort_reason |-> NoReason]

\* the mode names sent: the recognized ones and one that is not
SentModes == {"ranked", "zwanglos", "casual", "duel"}

\* the players arrays sent: two orders of the four players, and three players
SentIds == {<<1, 2, 3, 4>>, <<4, 3, 2, 1>>, <<1, 2, 3>>}

IngestReports ==
  { [GoodReport EXCEPT !.mode = mode, !.ids = ids, !.display_name = name] :
      mode \in SentModes, ids \in SentIds, name \in {StoredName, "renamed"} }
  \cup { [GoodReport EXCEPT !.mode = mode, !.token = "wrong"] : mode \in {"ranked", "zwanglos"} }
  \cup { [GoodReport EXCEPT !.mode = mode, !.fields = FALSE] : mode \in {"ranked", "zwanglos"} }
  \cup { [GoodReport EXCEPT !.mode = mode, !.rounds = <<>>] : mode \in {"ranked", "zwanglos"} }

\* all four players qualified; or player 2 one casual match short and
\* player 3 without a players row
IngestPlayers ==
  { [id \in P |-> PlayerRow(1000, CASUAL_REQUIRED_FOR_RANKED, PLACEMENT_GAMES)],
    [id \in P |-> IF id = 2 THEN PlayerRow(1000, CASUAL_REQUIRED_FOR_RANKED - 1, 0)
                  ELSE IF id = 3 THEN NoPlayerRow
                  ELSE PlayerRow(1000, CASUAL_REQUIRED_FOR_RANKED, PLACEMENT_GAMES)] }

IngestInit ==
  /\ pc \in {"routeA", "routeB"}
  /\ inp = None
  /\ out = None
  /\ players \in IngestPlayers
  /\ results = <<>>
  /\ matches = [n |-> 0, last |-> NoMatch]
  /\ violations = [g \in Guilds, id \in P |-> 0]
  /\ now = 0

SubmitA ==
  /\ pc = "routeA"
  /\ matches.n < MaxIngest
  /\ \E req \in IngestReports : PostA(req) /\ inp' = req
  /\ UNCHANGED <<pc, now>>

SubmitB ==
  /\ pc = "routeB"
  /\ matches.n < MaxIngest
  /\ \E req \in IngestReports : PostB(req) /\ inp' = req
  /\ UNCHANGED <<pc, now>>

IngestNext == SubmitA \/ SubmitB

SpecIngest == IngestInit /\ [][IngestNext]_vars

\* the stored tables
db == <<players, results, matches, violations>>

\* C16: in both variants a rejected report (bad or missing token, missing
\* fields, participant count other than 4, ranked report with a participant
\* below the casual requirement) leaves storage exactly as it was.
C16_RejectionPersistsNothing ==
  [][(~out'.ok /\ out'.status \in {400, 401}) => db' = db]_vars

\* the stored casual matches of a participant, a missing row counting as 0
StoredCasual(id) == Coalesce(players[id].games_casual, 0)

\* the positions of the report's players below the casual requirement
BelowRequirement(ids) == {i \in 1..Len(ids) : StoredCasual(ids[i]) < 5}

\* C17: for a ranked report that passes the shape checks POST inserts a match row only if each of the 4
\* participants has at least 5 casual matches; otherwise it responds 400 with
\* player_not_qualified_for_ranked:<id> for the first participant, in the
\* report's player order, below the requirement.
C17_RankedGate ==
  [][ (/\ inp'.mode = "ranked"
       /\ inp'.token = BotToken /\ inp'.fields /\ Len(inp'.ids) = 4
       /\ pc = "routeA" => Len(inp'.rounds) = 5)
      => LET below == BelowRequirement(inp'.ids)
         IN /\ matches' /= matches => below = {}
            /\ below /= {} =>
                 /\ ~out'.ok
                 /\ out'.status = 400
                 /\ out'.error = <<"player_not_qualified_for_ranked",
                                   inp'.ids[Min(below)]>>
                 /\ matches' = matches ]_vars

\* a ranked report listing the players as 4, 3, 2, 1, of whom 3 and 2 are
\* below the requirement, was answered with the id 3
C17_Witness ==
  /\ inp /= None
  /\ inp.mode = "ranked"
  /\ inp.ids = <<4, 3, 2, 1>>
  /\ inp.token = BotToken /\ inp.fields
  /\ players[2].games_casual < CASUAL_REQUIRED_FOR_RANKED
  /\ Coalesce(players[3].games_casual, 0) < CASUAL_REQUIRED_FOR_RANKED
  /\ out = [ok |-> FALSE, status |-> 400,
            error |-> <<"player_not_qualified_for_ranked", 3>>]
  /\ matches.n = 0

\* C18: in both variants a report whose mode is none of ranked, zwanglos,
\* casual is rejected with an error response and nothing is persisted.
C18_UnknownModeRejected ==
  [][ inp'.mode \notin {"ranked", "zwanglos", "casual"}
        => (~out'.ok /\ db' = db) ]_vars

\* C19: submitting the same report twice gives at most one match row and one
\* settlement: the second submission leaves the match rows, the ratings and
\* the game counters as the first left them.
C19_ResubmissionIdempotent ==
  [][ (inp' = inp /\ out.ok)
        => /\ matches' = matches
           /\ \A p \in P :
                /\ players'[p].elo_ranked = players[p].elo_ranked
                /\ players'[p].games_casual = players[p].games_casual
                /\ players'[p].games_ranked = players[p].games_ranked
                /\ players'[p].ranked_games_played = players[p].ranked_games_played
    ]_vars

----------------------------------------------------------------------------
(* SpecFail: reports to route.ts while storage calls may fail.  inp holds the
   report and the storage call that failed (NoOp when none did). *)

FailReports ==
  { [GoodReport EXCEPT !.mode = mode, !.violation = v] :
      mode \in Modes, v \in {NoViolation, Violation("afk", 1)} }

FailInit ==
  /\ pc = "routeA"
  /\ inp = None
  /\ out = None
  /\ players = [id \in P |-> PlayerRow(1000, CASUAL_REQUIRED_FOR_RANKED, PLACEMENT_GAMES)]
  /\ results = <<>>
  /\ matches = [n |-> 0, last |-> NoMatch]
  /\ violations = [g \in Guilds, id \in P |-> 0]
  /\ now = 0

\* every storage call succeeds
PostSucceeding ==
  /\ matches.n < MaxIngest
  /\ \E req \in FailReports :
       PostA(req) /\ inp' = [report |-> req, failed |-> NoOp]
  /\ UNCHANGED <<pc, now>>

\* one storage call returns an error
PostWithFailure ==
  /\ matches.n < MaxIngest
  /\ \E req \in FailReports, op \in StorageOps :
       PostAFailing(req, op) /\ inp' = [report |-> req, failed |-> op]
  /\ UNCHANGED <<pc, now>>

FailNext == PostSucceeding \/ PostWithFailure

SpecFail == FailInit /\ [][FailNext]_vars

\* C20: whenever a storage operation issued by POST fails, the request ends
\* with a non-2xx response carrying ok:false and an error; POST never returns
\* ok:true after one of its storage writes failed.
C20_NoSilentFailure ==
  (inp /= None /\ inp.failed /= NoOp) =>
    /\ ~out.ok
    /\ out.status >= 300
    /\ Len(out.error) > 0

----------------------------------------------------------------------------
(* Further properties of one ranked settlement (SpecElo) *)

\* the final deltas with the two steps of the scaled loop exchanged: the
\* placement multiplier first, the lobby multiplier on the tripled delta.  In
\* doubles the exchanged product can differ from the code's by one ulp
\* (125.99999999999999 for 126); both are rounded by Math.round to the same
\* integer, and in ticks both are the exact product.
ReversedFinalDeltas(ids, points, eloBefore, played) ==
  LET sorted == SortedByPoints(ids, points)
      baseDeltaMap == computeBaseDeltasByTiesFloat(sorted)
      anyPlacement == \E id \in Range(ids) : IsPlacement(played[id])
      scaled == [id \in Range(ids) |->
                   applyLobbyMultiplierFloat(
                     ScaledDelta(baseDeltaMap[id], IsPlacement(played[id])),
                     Tk(eloBefore[id]), AvgOthers(ids, eloBefore, id))]
  IN FinalDeltas(ids, sorted, scaled, anyPlacement)

\* the placement-phase participants of input i whose rating differs from the
\* mean of the other three by 100 or more
MismatchedPlacement(i) ==
  {p \in P : /\ IsPlacement(i.played[p])
             /\ Abs(4 * i.eloBefore[p] - SumSeq(i.eloBefore)) >= 3 * 100}

\* C22 as stated: for at least one placement-phase participant whose rating
\* differs from the average of the other three by 100 or more, multiplying by
\* 3 before the lobby dampening gives a final delta different from the code's.
C22_OrderLoadBearing ==
  pc = "done" =>
    \E i \in EloInputs :
      \E p \in MismatchedPlacement(i) :
        ReversedFinalDeltas(Ids, i.points, i.eloBefore, i.played)[p]
          /= RankedElo(Ids, i.points, i.eloBefore, i.played).finalDeltas[p]

\* C22, amended: the order of the two multiplications is not load-bearing:
\* multiplying by 3 before the lobby dampening gives every participant of
\* every ranked settlement the final delta the code gives.
C22_OrderImmaterial ==
  pc = "done" =>
    ReversedFinalDeltas(Ids, inp.points, inp.eloBefore, inp.played) = out.finalDeltas

\* a placement participant 300 above the lobby with a dampened, tripled loss
C22_Witness ==
  /\ pc = "done"
  /\ \E p \in MismatchedPlacement(inp) :
       /\ out.baseDeltaMap[p] = Tk(-30)
       /\ out.dampened[p] = Tk(-48)
       /\ out.finalDeltas[p] = -144
       /\ ReversedFinalDeltas(Ids, inp.points, inp.eloBefore, inp.played)[p] = -144

\* the re-centered delta of p, its rounding, and the rounding remainder
Recentered(p) == out.scaled[p] - (SumSeq(Vals(Ids, out.scaled)) \div 4)
RoundedRecentered(p) == MathRound(Recentered(p))
Remainder(p) == Recentered(p) - Tk(RoundedRecentered(p))
Residual == -SumSeq([p \in P |-> RoundedRecentered(p)])

\* the participants the redistribution loop gave a unit
GotUnit == {p \in P : out.finalDeltas[p] /= RoundedRecentered(p)}

\* C25: in normalizeZeroSumAndRound the sum of the re-centered, rounded
\* deltas deviates from 0 by at most 2; the loop ends with residual 0, changes
\* a rounded delta by at most one unit, in the needed direction, and gives the
\* units to the participants with the largest rounding remainder in that
\* direction; every final delta differs from its re-centered value by less
\* than 1.
C25_ResidualRedistribution ==
  (pc = "done" /\ NoPlacement) =>
    /\ Abs(Residual) <= 2
    /\ SumFinal = 0
    /\ Cardinality(GotUnit) = Abs(Residual)
    /\ \A p \in GotUnit :
         out.finalDeltas[p] - RoundedRecentered(p) = (IF Residual > 0 THEN 1 ELSE -1)
    /\ \A p \in GotUnit, q \in P \ GotUnit :
         IF Residual > 0 THEN Remainder(p) >= Remainder(q)
                         ELSE Remainder(p) <= Remainder(q)
    /\ \A p \in P : Abs(Tk(out.finalDeltas[p]) - Recentered(p)) < DEN

\* four re-centered deltas ending in .5, all rounded up: the rounded sum is 2,
\* and two participants were taken one unit each
C25_Witness ==
  /\ pc = "done"
  /\ NoPlacement
  /\ Residual = -2
  /\ \A p \in P : 2 * Remainder(p) = -DEN
  /\ Cardinality(GotUnit) = 2
  /\ \A p \in GotUnit : out.finalDeltas[p] = RoundedRecentered(p) - 1
  /\ SumFinal = 0

\* C27: in a ranked match two participants with equal total points, equal
\* pre-match rating and the same placement-phase status receive equal final
\* deltas.
C27_EqualParticipantsEqualDeltas ==
  pc = "done" =>
    \A p, q \in P :
      (/\ inp.points[p] = inp.points[q]
       /\ inp.eloBefore[p] = inp.eloBefore[q]
       /\ IsPlacement(inp.played[p]) = IsPlacement(inp.played[q]))
        => out.finalDeltas[p] = out.finalDeltas[q]

\* the participants who alone have the most, and alone the fewest, points
SoleFirst == {p \in P : \A q \in P \ {p} : inp.points[q] < inp.points[p]}
SoleLast == {p \in P : \A q \in P \ {p} : inp.points[q] > inp.points[p]}

\* C30: in every ranked settlement a participant who alone has the highest
\* total points receives a strictly positive final delta, one who alone has
\* the lowest a strictly negative one.
C30_SoleFirstGainsSoleLastLoses ==
  pc = "done" =>
    /\ \A p \in SoleFirst : out.finalDeltas[p] > 0
    /\ \A p \in SoleLast : out.finalDeltas[p] < 0

\* a normalized match: the sole first 300 above the lobby, dampened to 12
\* before the re-centering, and a sole last
C30_Witness ==
  /\ pc = "done"
  /\ NoPlacement
  /\ \E p \in SoleFirst : /\ Gap3(p) >= 3 * 300
                          /\ out.dampened[p] = Tk(12)
                          /\ out.finalDeltas[p] > 0
  /\ \E q \in SoleLast : out.finalDeltas[q] < 0

----------------------------------------------------------------------------
(* placement phase over a sequence of settlements (Spec) *)

\* the match_results row of participant p among the rows rs
RowIn(rs, p) == rs[CHOOSE k \in 1..Len(rs) : rs[k].discord_id = p]

\* the step settles a ranked match that was not aborted
SettlesRanked ==
  /\ matches'.n = matches.n + 1
  /\ matches'.last.mode = "ranked"
  /\ matches'.last.aborted_reason = NoReason

\* the dampened deltas of the match settled by the step, from its result rows
\* and the ratings it was computed with: the stored ones or the payload's
DampenedOf ==
  LET points == [p \in P |-> RowIn(results', p).total_points]
  IN { [p \in P |-> Dampened(Ids, base, eloBefore, p)] :
         base \in {computeBaseDeltasByTiesFloat(SortedByPoints(Ids, points))},
         eloBefore \in {[p \in P |-> players[p].elo_ranked], <<1300, 1000, 1000, 1000>>} }

\* the delta a participant in placement is given: three times the dampened
\* delta, rounded on its own
TripledAlone(p, dampened) ==
  MathRound(IF players[p].ranked_games_played < PLACEMENT_GAMES
            THEN PLACEMENT_MULT * dampened[p] ELSE dampened[p])

\* C24: over a sequence of reports processed one at a time,
\* ranked_games_played rises by exactly 1 in a settled, non-aborted ranked
\* match and by nothing otherwise, and a participant is in placement phase in
\* that match (delta tripled, match not normalized) iff their
\* ranked_games_played was below 6 when it was settled
C24_PlacementPhaseFirstSix ==
  [][ IF SettlesRanked
      THEN /\ \A p \in P : players'[p].ranked_games_played =
                             players[p].ranked_games_played + 1
           /\ out'.anyPlacement =
                (\E p \in P : players[p].ranked_games_played < PLACEMENT_GAMES)
           /\ \E dampened \in DampenedOf :
                IF out'.anyPlacement
                THEN \A p \in P : RowIn(results', p).elo_delta = TripledAlone(p, dampened)
                ELSE /\ \A p \in P :
                          Abs(4 * Tk(RowIn(results', p).elo_delta)
                              - (4 * dampened[p] - SumSeq([q \in P |-> dampened[q]]))) < 4 * DEN
                     /\ SumSeq([p \in P |-> RowIn(results', p).elo_delta]) = 0
      ELSE \A p \in P : players'[p].ranked_games_played = players[p].ranked_games_played
    ]_vars

\* a participant who had played 5 ranked matches settles the sixth in
\* placement: first with equal ratings, 30 * 1.0 * 3 = 90
C24_Witness ==
  /\ Accepted /\ matches.last.mode = "ranked" /\ matches.last.aborted_reason = NoReason
  /\ out.byId[1].ranked_games_played = 5
  /\ players[1].ranked_games_played = PLACEMENT_GAMES
  /\ out.anyPlacement
  /\ RowOf(1).placement = 1
  /\ RowOf(1).elo_delta = 90
  /\ \A p \in P \ {1} : out.byId[p].ranked_games_played = PLACEMENT_GAMES

\* the same participant's seventh match is settled outside the placement phase
C24_WitnessAfter ==
  /\ Accepted /\ matches.last.mode = "ranked" /\ matches.last.aborted_reason = NoReason
  /\ out.byId[1].ranked_games_played = PLACEMENT_GAMES
  /\ players[1].ranked_games_played = PLACEMENT_GAMES + 1
  /\ ~out.anyPlacement
  /\ matches.n = 2

----------------------------------------------------------------------------
(* no rollback (SpecFail) *)

\* the storage writes POST issues after the match row is inserted and whose
\* error it throws
WritesAfterMatchInsert ==
  {"match_rounds.insert", "round_player_points.insert", "match_results.insert",
   "players.update", "players.update.ban", "players.update.elo"}

\* the match_results rows of match m are persisted
HasResultRows(rs, m) == Len(rs) = 4 /\ \A k \in 1..Len(rs) : rs[k].match_id = m

\* participant id was given the update of a settled match of the mode
CountedFor(mode, id) ==
  IF mode = "zwanglos"
  THEN players'[id].games_casual = players[id].games_casual + 1
  ELSE /\ players'[id].games_ranked = players[id].games_ranked + 1
       /\ players'[id].ranked_games_played = players[id].ranked_games_played + 1

\* C23: when a storage write fails after the match row was inserted (round
\* insert, round_player_points insert, match_results insert or a player
\* update), what the request wrote before stays persisted (the match row
\* without result rows, or the first participants updated and the others
\* not) and the caller receives 500 with ok:false
C23_NoRollback ==
  [][ (inp' /= None /\ inp'.failed.name \in WritesAfterMatchInsert) =>
        LET req == inp'.report
            op == inp'.failed
        IN /\ ~out'.ok /\ out'.status = 500
           /\ matches'.n = matches.n + 1
           /\ matches'.last.id = matches'.n /\ matches'.last.mode = req.mode
           /\ op.name \in {"match_rounds.insert", "round_player_points.insert",
                           "match_results.insert", "players.update.ban"}
                => ~HasResultRows(results', matches'.n)
           /\ op.name \in {"match_results.insert", "players.update.elo"} /\ req.violation.present
                => /\ violations'[req.guild_id, req.violation.discord_id] =
                        violations[req.guild_id, req.violation.discord_id] + 1
                   /\ players'[req.violation.discord_id].violations_count =
                        players[req.violation.discord_id].violations_count + 1
           /\ op.name = "players.update.ban"
                => /\ violations'[req.guild_id, req.violation.discord_id] =
                        violations[req.guild_id, req.violation.discord_id] + 1
                   /\ players' = players
           /\ op.name = "players.update.elo"
                => /\ HasResultRows(results', matches'.n)
                   /\ players'[req.violation.discord_id].elo_ranked =
                        players[req.violation.discord_id].elo_ranked
           /\ op.name = "players.update"
                => /\ HasResultRows(results', matches'.n)
                   /\ \A i \in 1..4 :
                        IF i < op.k THEN CountedFor(req.mode, req.ids[i])
                        ELSE players'[req.ids[i]] = players[req.ids[i]]
    ]_vars

\* the update of the third participant of a casual match failed: the match
\* and its four result rows are stored, two participants are counted, two
\* are not, and the answer is 500
C23_Witness ==
  /\ inp /= None /\ inp.failed = [name |-> "players.update", k |-> 3]
  /\ inp.report.mode = "zwanglos"
  /\ out = [ok |-> FALSE, status |-> 500, error |-> <<"storage", "players.update">>]
  /\ matches.n = 1 /\ matches.last.id = 1
  /\ HasResultRows(results, 1)
  /\ players[1].games_casual = CASUAL_REQUIRED_FOR_RANKED + 1
  /\ players[2].games_casual = CASUAL_REQUIRED_FOR_RANKED + 1
  /\ players[3].games_casual = CASUAL_REQUIRED_FOR_RANKED
  /\ players[4].games_casual = CASUAL_REQUIRED_FOR_RANKED

\* the match_results insert failed: the match row is stored without result rows
C23_WitnessOrphan ==
  /\ inp /= None /\ inp.failed.name = "match_results.insert"
  /\ ~inp.report.violation.present
  /\ matches.n = 1 /\ matches.last.id = 1
  /\ results = <<>>
  /\ ~out.ok /\ out.status = 500

----------------------------------------------------------------------------
(* game counters of a match reported with a violation (SpecBanA, SpecBanB) *)

\* C29: in every variant of the endpoint a match reported with a violation
\* leaves games_casual, games_ranked and ranked_games_played of every
\* participant as they were stored when the report arrived
C29_ViolationKeepsGameCounters ==
  (Accepted /\ out.violation.present) =>
    \A p \in P :
      /\ players[p].games_casual = out.byId[p].games_casual
      /\ players[p].games_ranked = out.byId[p].games_ranked
      /\ players[p].ranked_games_played = out.byId[p].ranked_games_played

----------------------------------------------------------------------------
(* SpecRows: reports to route.ts whose rounds name an imposter outside the
   players array or whose players array lists a discord_id twice.  The
   storage either takes what POST sends or refuses the players upsert or the
   match_results insert.  inp holds the report and the refused call; the
   ranked reports without a violation are the well-formed ones. *)

\* a discord_id that is not in the players array
Outsider == 5

\* ReportRounds with the first round won by the outsider as imposter
OutsiderRounds ==
  [ReportRounds EXCEPT ![1] = Rd(Outsider, "imposter", FALSE)]

RowReports ==
  { r \in { [GoodReport EXCEPT !.mode = mode, !.violation = v, !.ids = ids,
                               !.rounds = rounds] :
              mode \in Modes, v \in {NoViolation, Violation("afk", 1)},
              ids \in {Ids, <<1, 1, 2, 3>>}, rounds \in {ReportRounds, OutsiderRounds} } :
      (r.mode = "ranked" /\ ~r.violation.present)
        => (r.ids = Ids /\ r.rounds = ReportRounds) }

\* the storage takes every call
SubmitRows ==
  /\ matches.n < MaxRowReports
  /\ \E req \in RowReports :
       PostA(req) /\ inp' = [report |-> req, failed |-> NoOp]
  /\ UNCHANGED <<pc, now>>

\* the storage refuses the upsert or the result rows
RefuseRows ==
  /\ matches.n < MaxRowReports
  /\ \E req \in RowReports, name \in {"players.upsert", "match_results.insert"} :
       /\ PostAFailing(req, [name |-> name, k |-> 0])
       /\ inp' = [report |-> req, failed |-> [name |-> name, k |-> 0]]
  /\ UNCHANGED <<pc, now>>

RowsNext == SubmitRows \/ RefuseRows

SpecRows == FailInit /\ [][RowsNext]_vars

\* C28: every accepted report persists exactly 4 match_results rows, one for
\* each participant of the report and none for anyone else, each with a
\* finite integer total_points; also when a round's imposter is not a
\* participant and when the players array repeats a discord_id
C28_FourFiniteResultRows ==
  (inp /= None /\ Accepted) =>
    /\ Len(results) = 4
    /\ \A k \in 1..Len(results) :
         /\ results[k].match_id = out.match_id
         /\ results[k].discord_id \in Range(inp.report.ids)
         /\ results[k].total_points /= NaN
         /\ results[k].total_points \in 0..(2 * 5)
    /\ \A id \in Range(inp.report.ids) :
         Cardinality({k \in 1..Len(results) : results[k].discord_id = id}) = 1

----------------------------------------------------------------------------
(* SpecDisplay: the pages that show a match.  inp holds the match_results
   rows of one match as POST of route.ts wrote them (settled: placement
   idx + 1 in the order of the points; aborted: placement 0 in every row),
   out the placement shown for each row. *)

\* calculateActualPlacement: the while loop from position i with rank
\* currentRank, placementMap being the map so far (stored placement ->
\* shown placement, in ticks); a later set of the same key replaces the
\* earlier one
RECURSIVE PlacementLoop(_, _, _, _)
PlacementLoop(sorted, i, currentRank, placementMap) ==
  IF i > Len(sorted) THEN placementMap
  ELSE LET currentPoints == sorted[i].total_points
           tiedPlayers == SelectSeq(SubSeq(sorted, i, Len(sorted)),
                                    LAMBDA p : p.total_points = currentPoints)
           tiedCount == Len(tiedPlayers)
           ranksSum == SumSeq([idx \in 1..tiedCount |-> currentRank + idx - 1])
           avgRank == Tk(ranksSum) \div tiedCount
           keys == {tiedPlayers[k].placement : k \in 1..tiedCount}
       IN PlacementLoop(sorted, i + tiedCount, currentRank + tiedCount,
                        [key \in DOMAIN placementMap \cup keys |->
                           IF key \in keys THEN avgRank ELSE placementMap[key]])

\* the rows sorted by total_points, highest first (stable)
SortRows(rows) ==
  LET order == SortDesc([k \in 1..Len(rows) |-> k], [k \in 1..Len(rows) |-> rows[k].total_points])
  IN [j \in 1..Len(rows) |-> rows[order[j]]]

calculateActualPlacement(rows) == PlacementLoop(SortRows(rows), 1, 1, <<>>)

\* toggleMatch: p.placement = actualPlacements.get(p.placement)
ShownInMatch(rows) ==
  LET actualPlacements == calculateActualPlacement(rows)
  IN [k \in 1..Len(rows) |-> actualPlacements[rows[k].placement]]

\* Home.load: the same loop with the map keyed by discord_id
RECURSIVE PlacementLoopById(_, _, _, _)
PlacementLoopById(sorted, i, currentRank, placementMap) ==
  IF i > Len(sorted) THEN placementMap
  ELSE LET currentPoints == sorted[i].total_points
           tiedPlayers == SelectSeq(SubSeq(sorted, i, Len(sorted)),
                                    LAMBDA p : p.total_points = currentPoints)
           tiedCount == Len(tiedPlayers)
           ranksSum == SumSeq([idx \in 1..tiedCount |-> currentRank + idx - 1])
           avgRank == Tk(ranksSum) \div tiedCount
           keys == {tiedPlayers[k].discord_id : k \in 1..tiedCount}
       IN PlacementLoopById(sorted, i + tiedCount, currentRank + tiedCount,
                            [key \in DOMAIN placementMap \cup keys |->
                               IF key \in keys THEN avgRank ELSE placementMap[key]])

\* actualPlacementsByMatch[matchId].get(did)
ShownOnHome(rows) ==
  LET placementMap == PlacementLoopById(SortRows(rows), 1, 1, <<>>)
  IN [k \in 1..Len(rows) |-> placementMap[rows[k].discord_id]]

\* the total points of the four participants
DisplayPoints == [P -> 0..MaxShownPts]

\* the rows of a settled casual match and of an aborted one
StoredRows ==
  {ResultsRows(1, SortedByPoints(Ids, pts), ZeroDeltas(Ids)) : pts \in DisplayPoints}
  \cup {ResultsAbort(1, Ids, pts, 1, 0) : pts \in DisplayPoints}

DisplayInit ==
  /\ pc = "stored"
  /\ inp \in StoredRows
  /\ out = None
  /\ DbIdle

\* the match page opens the match
ToggleMatch ==
  /\ pc = "stored"
  /\ pc' = "shown"
  /\ out' = ShownInMatch(inp)
  /\ UNCHANGED <<inp, dbVars>>

\* the home page loads its last placements
LoadHome ==
  /\ pc = "stored"
  /\ pc' = "shown"
  /\ out' = ShownOnHome(inp)
  /\ UNCHANGED <<inp, dbVars>>

DisplayNext == ToggleMatch \/ LoadHome

SpecDisplay == DisplayInit /\ [][DisplayNext]_vars

\* the mean of the ranks taken by the rows with the points of row k, in ticks
MeanRank(rows, k) ==
  LET higher == Cardinality({j \in 1..Len(rows) : rows[j].total_points > rows[k].total_points})
      same == Cardinality({j \in 1..Len(rows) : rows[j].total_points = rows[k].total_points})
  IN (Tk(2 * higher + same + 1)) \div 2

\* C26: the display gives every row the mean of the ranks of its group of
\* equal total_points ([5,5,3,2] -> [1.5,1.5,3,4], [5,5,5,5] -> 2.5 each),
\* whatever placements the rows have stored, rows that share a stored
\* placement included
C26_ShownPlacementIsGroupMean ==
  pc = "shown" => \A k \in 1..Len(inp) : out[k] = MeanRank(inp, k)

----------------------------------------------------------------------------
(* SpecConc: two POST requests of route.ts in flight at once, for two ranked
   matches of the same four participants.  Each request runs its awaits in
   order; between two awaits the other request may run.  pc[h] is the
   position of request h, inp[h] its report, out[h] its local variables:
   byId (the rows read at lines 243-250), finalDeltas, and k, the number of
   participants its update loop has written. *)

H == {1, 2}

\* the next object of the update loop (lines 527-544): every column from the
\* row read at the start of the request
UpdatedRowRelative(row, read, delta) ==
  [row EXCEPT !.elo_ranked = NextElo(row.elo_ranked, delta),
              !.games_ranked = row.games_ranked + 1,
              !.ranked_games_played = row.ranked_games_played + 1]

UpdatedRow(row, read, delta) ==
  [row EXCEPT !.elo_ranked = NextElo(read.elo_ranked, delta),
              !.games_ranked = read.games_ranked + 1,
              !.ranked_games_played = read.ranked_games_played + 1]

\* ranked reports of the players 1..4 with the points [5,3,3,2], [2,3,3,5]
\* and [1,0,3,7]
ConcReports ==
  { [GoodReport EXCEPT !.mode = "ranked", !.rounds = rounds] :
      rounds \in {r \in RoundLists : ComputePoints(Ids, r) /= <<0, 0, 0, 0>>} }

ConcInit ==
  /\ pc = [h \in H |-> "start"]
  /\ inp \in [H -> ConcReports]
  /\ out = [h \in H |-> None]
  /\ \E played \in {PLACEMENT_GAMES, PLACEMENT_GAMES - 1} :
       players = [id \in P |-> PlayerRow(1000, CASUAL_REQUIRED_FOR_RANKED, played)]
  /\ results = <<>>
  /\ matches = [n |-> 0, last |-> NoMatch]
  /\ violations = [g \in Guilds, id \in P |-> 0]
  /\ now = 0

\* lines 208-266: the early returns, the players upsert, the read of the
\* participants' rows and the ranked gate
ReadPlayers(h) ==
  /\ pc[h] = "start"
  /\ LET req == inp[h]
         upserted == UpsertPlayers(players, req.ids, req.display_name)
         byId == ReadRows(upserted)
     IN IF RejectionA(req) /= None
        THEN /\ out' = [out EXCEPT ![h] = RejectionA(req)]
             /\ pc' = [pc EXCEPT ![h] = "done"]
             /\ UNCHANGED players
        ELSE /\ players' = upserted
             /\ IF Unqualified(req.ids, byId) /= {}
                THEN /\ out' = [out EXCEPT ![h] =
                                  [ok |-> FALSE, status |-> 400,
                                   error |-> <<"player_not_qualified_for_ranked",
                                               req.ids[Min(Unqualified(req.ids, byId))]>>]]
                     /\ pc' = [pc EXCEPT ![h] = "done"]
                ELSE /\ out' = [out EXCEPT ![h] = [byId |-> byId]]
                     /\ pc' = [pc EXCEPT ![h] = "settle"]
  /\ UNCHANGED <<inp, results, matches, violations, now>>

\* lines 270-524: the match row, the rounds, the deltas from the rows read,
\* the match_results rows
InsertResults(h) ==
  /\ pc[h] = "settle"
  /\ LET req == inp[h]
         byId == out[h].byId
         match_id == matches.n + 1
         points == ComputePoints(req.ids, req.rounds)
         sorted == SortedByPoints(PointKeys(req.ids, req.rounds), points)
         elo == RankedElo(req.ids, points, EloBefore(req, byId, req.ids),
                          [id \in Range(req.ids) |-> byId[id].ranked_games_played])
     IN /\ matches' = [n |-> match_id,
                       last |-> [id |-> match_id, guild_id |-> req.guild_id,
                                 mode |-> req.mode, aborted_reason |-> NoReason]]
        /\ results' = ResultsRows(match_id, sorted, elo.finalDeltas)
        /\ out' = [out EXCEPT ![h] = [byId |-> byId, match_id |-> match_id,
                                      finalDeltas |-> elo.finalDeltas, k |-> 0]]
        /\ pc' = [pc EXCEPT ![h] = "update"]
  /\ UNCHANGED <<inp, players, violations, now>>

\* lines 526-549: one pass of the update loop, then the response
UpdatePlayer(h) ==
  /\ pc[h] = "update"
  /\ LET id == inp[h].ids[out[h].k + 1]
     IN players' = [players EXCEPT ![id] =
                      UpdatedRow(@, out[h].byId[id], out[h].finalDeltas[id])]
  /\ out' = [out EXCEPT ![h].k = @ + 1]
  /\ pc' = [pc EXCEPT ![h] = IF out[h].k + 1 = Len(inp[h].ids) THEN "done" ELSE "update"]
  /\ UNCHANGED <<inp, results, matches, violations, now>>

ConcNext == \E h \in H : ReadPlayers(h) \/ InsertResults(h) \/ UpdatePlayer(h)

SpecConc == ConcInit /\ [][ConcNext]_vars

\* both requests have answered, and both had read the participants' rows
\* before either wrote them
BothReadFirst ==
  /\ \A h \in H : pc[h] = "done" /\ out[h] /= None /\ "finalDeltas" \in DOMAIN out[h]
  /\ out[1].byId = out[2].byId

\* participant p's stored row counts the match of request h alone
CountsOnly(h, p) ==
  /\ players[p].elo_ranked = NextElo(out[h].byId[p].elo_ranked, out[h].finalDeltas[p])
  /\ players[p].games_ranked = out[h].byId[p].games_ranked + 1
  /\ players[p].ranked_games_played = out[h].byId[p].ranked_games_played + 1

\* C21: when two ranked settlements that share a participant both read the
\* participant's row before either writes it, the stored rating and
\* ranked_games_played end as one of the two matches alone leaves them (the
\* last write wins); the update of the other match is lost
C21_LastWriteWins ==
  BothReadFirst => \A p \in P : \E h \in H : CountsOnly(h, p)

\* participant 1 gained 30 in one match and lost 30 in the other; the stored
\* row shows a single match and the rating of the gain alone, not 1000 after
\* two matches
C21_Witness ==
  /\ BothReadFirst
  /\ out[1].finalDeltas[1] = 30 /\ out[2].finalDeltas[1] = -30
  /\ out[1].byId[1].elo_ranked = 1000
  /\ out[1].byId[1].ranked_games_played = PLACEMENT_GAMES
  /\ players[1].elo_ranked = 1030
  /\ players[1].ranked_games_played = PLACEMENT_GAMES + 1
  /\ players[1].games_ranked = PLACEMENT_GAMES + 1

====
